---- MODULE Spec2Model ----
(***************************************************************************)
(* Model of json_access_helper.hpp: the accessor family generated by       *)
(* DEFINE_JSON_ACCESSOR(Tag, Type, Key) (read, try_read, write, emplace,   *)
(* reference, path) acting on one caller-owned boost::json::value.         *)
(*                                                                         *)
(* The generated functions are one-line calls of Boost.JSON primitives     *)
(* (find_pointer, at_pointer, set_at_pointer, value_to, try_value_to,      *)
(* value_from); those primitives are modelled by what they do on the       *)
(* value tree, with their error codes.                                     *)
(***************************************************************************)
EXTENDS Integers, Sequences, FiniteSets, TLC

VARIABLES doc, before, call, calls

vars == <<doc, before, call, calls>>

(***************************************************************************)
(* Bounds                                                                  *)
(***************************************************************************)
\* number of accessor calls (and stores through a handle) in one run
MaxCalls == 3

(***************************************************************************)
(* boost::json::value: a runtime-tagged tree.  Every value is a record of  *)
(* the same five fields; only the field its kind selects is meaningful.    *)
(*   kind "double": n holds twice the number (47 is 23.5, 46 is 23.0)      *)
(***************************************************************************)
Scalar(k, s, n) == [kind |-> k, s |-> s, n |-> n, arr |-> <<>>, obj |-> <<>>]
JNull       == Scalar("null", "", 0)
JString(s)  == Scalar("string", s, 0)
JInt(n)     == Scalar("int64", "", n)
JDouble(h)  == Scalar("double", "", h)
JArray(a)   == [kind |-> "array",  s |-> "", n |-> 0, arr |-> a,    obj |-> <<>>]
JObject(o)  == [kind |-> "object", s |-> "", n |-> 0, arr |-> <<>>, obj |-> o]

\* object with key k set to v (inserted when absent)
ObjPut(o, k, v) == [x \in (DOMAIN o) \cup {k} |-> IF x = k THEN v ELSE o[x]]

(***************************************************************************)
(* Typed values of the three Bound Value Types of the test accessors, and  *)
(* the nullptr sentinel of the nullptr_t overloads.                        *)
(***************************************************************************)
Typed(t, s, n, v) == [type |-> t, s |-> s, n |-> n, v |-> v]
TString(s)  == Typed("string", s, 0, <<>>)
TInt(n)     == Typed("int", "", n, <<>>)
TVector(v)  == Typed("vector", "", 0, v)
TNullptr    == Typed("nullptr", "", 0, <<>>)
TNone       == Typed("none", "", 0, <<>>)

(***************************************************************************)
(* Tags: one per DEFINE_JSON_ACCESSOR(Tag, Type, Key).  UserName, UserAge  *)
(* and UserLangs are the accessors of the test suite; UserLang1 and        *)
(* UserLangNext bind a string to an array index and to the past-the-end    *)
(* marker of the same array.                                               *)
(***************************************************************************)
Tags == {"UserName", "UserAge", "UserLangs", "UserLang1", "UserLangNext"}

\* Key: the JSON-pointer literal bound to the tag (Tag##Path)
Key(tag) ==
    CASE tag = "UserName"     -> "/user/name"
      [] tag = "UserAge"      -> "/user/age"
      [] tag = "UserLangs"    -> "/user/languages"
      [] tag = "UserLang1"    -> "/user/languages/1"
      [] tag = "UserLangNext" -> "/user/languages/-"

\* the reference tokens of Key(tag), as next_segment yields them
Segments(tag) ==
    CASE tag = "UserName"     -> <<"user", "name">>
      [] tag = "UserAge"      -> <<"user", "age">>
      [] tag = "UserLangs"    -> <<"user", "languages">>
      [] tag = "UserLang1"    -> <<"user", "languages", "1">>
      [] tag = "UserLangNext" -> <<"user", "languages", "-">>

\* Type: the Bound Value Type of the tag
Type(tag) ==
    CASE tag = "UserName"     -> "string"
      [] tag = "UserAge"      -> "int"
      [] tag = "UserLangs"    -> "vector"
      [] tag = "UserLang1"    -> "string"
      [] tag = "UserLangNext" -> "string"

(***************************************************************************)
(* boost::json::error codes the accessors can surface, by condition.       *)
(***************************************************************************)
PointerUseErrors == {"not_found", "value_is_scalar", "token_not_number", "past_the_end"}
ConversionErrors == {"not_string", "not_number", "not_exact", "not_array"}

(***************************************************************************)
(* JSON Pointer tokens as array indices (detail::parse_number_token):      *)
(* "-" is the past-the-end marker, a decimal without leading zero is an    *)
(* index, anything else is not a number.                                   *)
(***************************************************************************)
IndexTokens == <<"0", "1", "2", "3", "4", "5", "6", "7", "8", "9">>
IndexToken(i) == IndexTokens[i + 1]
ParseNumberToken(tok) ==
    IF tok = "-" THEN [ec |-> "past_the_end", index |-> 0]
    ELSE IF \E i \in DOMAIN IndexTokens : IndexTokens[i] = tok
         THEN [ec |-> "", index |-> (CHOOSE i \in DOMAIN IndexTokens : IndexTokens[i] = tok) - 1]
         ELSE [ec |-> "token_not_number", index |-> 0]

(***************************************************************************)
(* value::find_pointer(ptr, ec): walks the tokens without creating         *)
(* anything.  Result: the error code ("" when the node exists).  The node  *)
(* found is the one at that token position (NodeAt).                       *)
(***************************************************************************)
RECURSIVE FindPointer(_, _)
FindPointer(jv, toks) ==
    IF toks = <<>> THEN ""
    ELSE IF jv.kind = "object"
         THEN IF Head(toks) \in DOMAIN jv.obj
              THEN FindPointer(jv.obj[Head(toks)], Tail(toks))
              ELSE "not_found"
    ELSE IF jv.kind = "array"
         THEN LET r == ParseNumberToken(Head(toks)) IN
              IF r.ec # "" THEN r.ec
              ELSE IF r.index < Len(jv.arr)
                   THEN FindPointer(jv.arr[r.index + 1], Tail(toks))
                   ELSE "not_found"
    ELSE "value_is_scalar"

\* the node a resolved pointer designates
RECURSIVE NodeAt(_, _)
NodeAt(jv, toks) ==
    IF toks = <<>> THEN jv
    ELSE IF jv.kind = "object"
         THEN NodeAt(jv.obj[Head(toks)], Tail(toks))
         ELSE NodeAt(jv.arr[ParseNumberToken(Head(toks)).index + 1], Tail(toks))

\* variant: the assignment lands on the document instead of the node
AssignToDocument(jv, toks, v) == v

\* assignment through a pointer to the node at a resolved position: *ref = v
RECURSIVE Assign(_, _, _)
Assign(jv, toks, v) ==
    IF toks = <<>> THEN v
    ELSE IF jv.kind = "object"
         THEN JObject(ObjPut(jv.obj, Head(toks), Assign(jv.obj[Head(toks)], Tail(toks), v)))
         ELSE LET i == ParseNumberToken(Head(toks)).index + 1 IN
              JArray([jv.arr EXCEPT ![i] = Assign(jv.arr[i], Tail(toks), v)])

(***************************************************************************)
(* value::set_at_pointer(ptr, value) with default set_pointer_options:     *)
(* like find_pointer, but a missing object key is inserted (as null), an   *)
(* array is padded with nulls up to the index ("-" is the index one past   *)
(* the end), and a null met before the last token is replaced by an empty  *)
(* array (token "-" or a number) or an empty object.  Any other scalar met *)
(* before the last token is an error.  The walk mutates as it goes, so jv  *)
(* in the result is the document as the call leaves it, failed or not.     *)
(*   pos: the token position of the node written (the reference returned)  *)
(***************************************************************************)
MaxCreatedElements == 1024

Pad(arr, n) == arr \o [i \in 1..n |-> JNull]

RECURSIVE SetAtPointer(_, _, _)
SetAtPointer(jv, toks, v) ==
    IF toks = <<>> THEN [ec |-> "", jv |-> v, pos |-> <<>>]
    ELSE IF jv.kind = "object"
         THEN LET k == Head(toks)
                  child == IF k \in DOMAIN jv.obj THEN jv.obj[k] ELSE JNull
                  r == SetAtPointer(child, Tail(toks), v)
              IN  [ec |-> r.ec, jv |-> JObject(ObjPut(jv.obj, k, r.jv)), pos |-> <<k>> \o r.pos]
    ELSE IF jv.kind = "array"
         THEN LET p == ParseNumberToken(Head(toks))
                  index == IF p.ec = "past_the_end" THEN Len(jv.arr) ELSE p.index
                  n == index - Len(jv.arr)
              IN  IF p.ec = "token_not_number"
                  THEN [ec |-> p.ec, jv |-> jv, pos |-> <<>>]
                  ELSE IF n >= MaxCreatedElements
                  THEN [ec |-> "past_the_end", jv |-> jv, pos |-> <<>>]
                  ELSE LET arr == IF n >= 0 THEN Pad(jv.arr, n + 1) ELSE jv.arr
                           r == SetAtPointer(arr[index + 1], Tail(toks), v)
                       IN  [ec |-> r.ec,
                            jv |-> JArray([arr EXCEPT ![index + 1] = r.jv]),
                            pos |-> <<IndexToken(index)>> \o r.pos]
    ELSE IF jv.kind = "null"
         THEN IF ParseNumberToken(Head(toks)).ec \in {"", "past_the_end"}
              THEN SetAtPointer(JArray(<<>>), toks, v)
              ELSE SetAtPointer(JObject(<<>>), toks, v)
    ELSE [ec |-> "value_is_scalar", jv |-> jv, pos |-> <<>>]

\* variant: the conversion of a vector stops one element short
ValueFromShort(t) ==
    CASE t.type = "string" -> JString(t.s)
      [] t.type = "int"    -> JInt(t.n)
      [] t.type = "vector" -> JArray([i \in 1..(Len(t.v) - 1) |-> JString(t.v[i])])

(***************************************************************************)
(* boost::json::value_from(value): typed value to generic value.           *)
(***************************************************************************)
ValueFrom(t) ==
    CASE t.type = "string" -> JString(t.s)
      [] t.type = "int"    -> JInt(t.n)
      [] t.type = "vector" -> JArray([i \in DOMAIN t.v |-> JString(t.v[i])])

\* variant: a number that is not exactly an int is truncated, and null
\* reads as the empty string
TryValueToCoercing(type, jv) ==
    CASE type = "string" ->
            IF jv.kind \in {"string", "null"} THEN [ec |-> "", val |-> TString(jv.s)]
            ELSE [ec |-> "not_string", val |-> TNone]
      [] type = "int" ->
            IF jv.kind = "int64" THEN [ec |-> "", val |-> TInt(jv.n)]
            ELSE IF jv.kind = "double" THEN [ec |-> "", val |-> TInt(jv.n \div 2)]
            ELSE [ec |-> "not_number", val |-> TNone]
      [] type = "vector" ->
            IF jv.kind # "array" THEN [ec |-> "not_array", val |-> TNone]
            ELSE IF \E i \in DOMAIN jv.arr : jv.arr[i].kind # "string"
                 THEN [ec |-> "not_string", val |-> TNone]
            ELSE [ec |-> "", val |-> TVector([i \in DOMAIN jv.arr |-> jv.arr[i].s])]

(***************************************************************************)
(* boost::json::try_value_to<Type>(jv): generic value to typed value, or   *)
(* the conversion error.  string needs a string node; int needs a number   *)
(* that is exactly an int (value::to_number); vector<string> needs an      *)
(* array of string nodes.  The int64 nodes of the model all lie within     *)
(* int's range.                                                            *)
(***************************************************************************)
TryValueTo(type, jv) ==
    CASE type = "string" ->
            IF jv.kind = "string" THEN [ec |-> "", val |-> TString(jv.s)]
            ELSE [ec |-> "not_string", val |-> TNone]
      [] type = "int" ->
            IF jv.kind = "int64" THEN [ec |-> "", val |-> TInt(jv.n)]
            ELSE IF jv.kind = "double"
                 THEN IF jv.n % 2 = 0 THEN [ec |-> "", val |-> TInt(jv.n \div 2)]
                      ELSE [ec |-> "not_exact", val |-> TNone]
            ELSE [ec |-> "not_number", val |-> TNone]
      [] type = "vector" ->
            IF jv.kind # "array" THEN [ec |-> "not_array", val |-> TNone]
            ELSE IF \E i \in DOMAIN jv.arr : jv.arr[i].kind # "string"
                 THEN [ec |-> "not_string", val |-> TNone]
            ELSE [ec |-> "", val |-> TVector([i \in DOMAIN jv.arr |-> jv.arr[i].s])]

(***************************************************************************)
(* Results of a call.                                                      *)
(*   "value"   a typed value returned (read, or a try_read result)         *)
(*   "error"   an error_code returned as a result (try_read)               *)
(*   "raised"  a boost::system::system_error thrown, carrying ec           *)
(*   "true" / "false"  write's bool                                        *)
(*   "ref"     a pointer or reference to the node at position pos          *)
(*   "nullptr" reference's null pointer                                    *)
(*   "path"    the string_view of path (in val)                            *)
(***************************************************************************)
Ret(k, val, ec, pos) == [kind |-> k, val |-> val, ec |-> ec, pos |-> pos]
RetNone      == Ret("none", TNone, "", <<>>)
RetValue(v)  == Ret("value", v, "", <<>>)
RetError(ec) == Ret("error", TNone, ec, <<>>)
RetRaised(ec) == Ret("raised", TNone, ec, <<>>)
RetBool(b)   == Ret(IF b THEN "true" ELSE "false", TNone, "", <<>>)
RetRef(pos)  == Ret("ref", TNone, "", pos)
RetNullptr   == Ret("nullptr", TNone, "", <<>>)

(***************************************************************************)
(* The generated accessors, as functions of the document.  Those that can  *)
(* change the document return the document they leave with the result.     *)
(***************************************************************************)
\* Type read(const value& jv, Tag): value_to<Type>(jv.at_pointer(Path))
read(jv, tag) ==
    LET ec == FindPointer(jv, Segments(tag)) IN
    IF ec # "" THEN RetRaised(ec)
    ELSE LET c == TryValueTo(Type(tag), NodeAt(jv, Segments(tag))) IN
         IF c.ec # "" THEN RetRaised(c.ec) ELSE RetValue(c.val)

\* variant: try_read resolves with at_pointer and converts with value_to
try_read_throwing(jv, tag) == read(jv, tag)

\* result<Type> try_read(const value& jv, Tag)
try_read(jv, tag) ==
    LET ec == FindPointer(jv, Segments(tag)) IN
    IF ec # "" THEN RetError(ec)
    ELSE LET c == TryValueTo(Type(tag), NodeAt(jv, Segments(tag))) IN
         IF c.ec # "" THEN RetError(c.ec) ELSE RetValue(c.val)

\* variant: write resolves with set_at_pointer, creating what is missing
write_creating(jv, tag, value) ==
    LET found == FindPointer(jv, Segments(tag)) = ""
        r == SetAtPointer(jv, Segments(tag), ValueFrom(value))
    IN  [ret |-> RetBool(found), jv |-> r.jv]

\* bool write(value& jv, Tag, const Type& value) and (..., Type&& value)
write(jv, tag, value) ==
    IF FindPointer(jv, Segments(tag)) # ""
    THEN [ret |-> RetBool(FALSE), jv |-> jv]
    ELSE [ret |-> RetBool(TRUE), jv |-> Assign(jv, Segments(tag), ValueFrom(value))]

\* variant: the nullptr overload reports success and leaves the node
write_null_skipping(jv, tag) ==
    [ret |-> RetBool(FindPointer(jv, Segments(tag)) = ""), jv |-> jv]

\* bool write(value& jv, Tag, nullptr_t)
write_null(jv, tag) ==
    IF FindPointer(jv, Segments(tag)) # ""
    THEN [ret |-> RetBool(FALSE), jv |-> jv]
    ELSE [ret |-> RetBool(TRUE), jv |-> Assign(jv, Segments(tag), JNull)]

\* variant: emplace resolves with find_pointer and creates nothing
emplace_finding(jv, tag, value) ==
    LET ec == FindPointer(jv, Segments(tag)) IN
    IF ec # "" THEN [ret |-> RetRaised(ec), jv |-> jv]
    ELSE [ret |-> RetRef(Segments(tag)),
          jv |-> Assign(jv, Segments(tag), ValueFrom(value))]

\* variant: a vector emplaced where an array already stands is appended to
\* it instead of replacing it
emplace_extending(jv, tag, value) ==
    LET toks == Segments(tag)
        r == SetAtPointer(jv, toks, ValueFrom(value))
    IN  IF FindPointer(jv, toks) = "" /\ NodeAt(jv, toks).kind = "array" /\ value.type = "vector"
        THEN [ret |-> RetRef(toks),
              jv |-> Assign(jv, toks, JArray(NodeAt(jv, toks).arr \o ValueFrom(value).arr))]
        ELSE [ret |-> IF r.ec # "" THEN RetRaised(r.ec) ELSE RetRef(r.pos), jv |-> r.jv]

\* value& emplace(value& jv, Tag, const Type& value) and (..., Type&& value)
emplace(jv, tag, value) ==
    LET r == SetAtPointer(jv, Segments(tag), ValueFrom(value)) IN
    [ret |-> IF r.ec # "" THEN RetRaised(r.ec) ELSE RetRef(r.pos), jv |-> r.jv]

\* variant: the error of set_at_pointer is taken in an error_code and dropped
emplace_null_swallowing(jv, tag) ==
    LET r == SetAtPointer(jv, Segments(tag), JNull) IN
    [ret |-> RetRef(IF r.ec # "" THEN Segments(tag) ELSE r.pos), jv |-> r.jv]

\* value& emplace(value& jv, Tag, nullptr_t)
emplace_null(jv, tag) ==
    LET r == SetAtPointer(jv, Segments(tag), JNull) IN
    [ret |-> IF r.ec # "" THEN RetRaised(r.ec) ELSE RetRef(r.pos), jv |-> r.jv]

\* variant: the pointer returned is the parent's
reference_parent(jv, tag) ==
    IF FindPointer(jv, Segments(tag)) # "" THEN RetNullptr
    ELSE RetRef(SubSeq(Segments(tag), 1, Len(Segments(tag)) - 1))

\* value* reference(value& jv, Tag) and its const overload
reference(jv, tag) ==
    IF FindPointer(jv, Segments(tag)) # "" THEN RetNullptr ELSE RetRef(Segments(tag))

\* std::string_view path(Tag)
path(tag) == Ret("path", TString(Key(tag)), "", <<>>)

(***************************************************************************)
(* Inputs: the values callers pass, and the documents they start from.     *)
(***************************************************************************)
Values(type) ==
    CASE type = "string" -> {TString("Alice"), TString("Bob")}
      [] type = "int"    -> {TInt(23), TInt(100)}
      [] type = "vector" -> {TVector(<<"C++", "Python">>), TVector(<<>>)}

\* what a caller stores through the handle reference returned
StoredValues == {JInt(10), JDouble(47)}

\* the test suite's template_json (with the spec's two languages)
template_json ==
    JObject([k \in {"user"} |->
        JObject([f \in {"name", "age", "languages"} |->
            CASE f = "name" -> JString("Alice")
              [] f = "age"  -> JInt(23)
              [] f = "languages" -> JArray(<<JString("C++"), JString("Python")>>)])])

InitDocs ==
    { JNull,                                             \* json::value()
      template_json,
      JObject(<<>>),                                     \* {}
      JObject([k \in {"user"} |-> JNull]),               \* {"user": null}
      JObject([k \in {"user"} |-> JInt(23)]),            \* {"user": 23}
      JObject([k \in {"user"} |-> JArray(<<>>)]),        \* {"user": []}
      JObject([k \in {"user"} |->                        \* {"user": {"age": 23.0}}
          JObject([f \in {"age"} |-> JDouble(46)])]),
      JObject([k \in {"user"} |->                        \* {"user": {"languages": {}}}
          JObject([f \in {"languages"} |-> JObject(<<>>)])]) }

(***************************************************************************)
(* State: the caller's document, the document as it was before the last    *)
(* call, the last call with its result, and the number of calls made.      *)
(*   call.overload: "copy" (const Type&), "move" (Type&&), "nullptr"       *)
(***************************************************************************)
Call(op, overload, tag, arg, stored, ret) ==
    [op |-> op, overload |-> overload, tag |-> tag, arg |-> arg, stored |-> stored, ret |-> ret]

\* every call: the document before it is remembered, the count advances
Called == calls < MaxCalls /\ before' = doc /\ calls' = calls + 1

Init ==
    /\ doc \in InitDocs
    /\ before = doc
    /\ call = Call("none", "none", "UserName", TNone, JNull, RetNone)
    /\ calls = 0

Read ==
    \E tag \in Tags :
        /\ Called
        /\ call' = Call("read", "none", tag, TNone, JNull, read(doc, tag))
        /\ doc' = doc

TryRead ==
    \E tag \in Tags :
        /\ Called
        /\ call' = Call("try_read", "none", tag, TNone, JNull, try_read(doc, tag))
        /\ doc' = doc

WriteCopy ==
    \E tag \in Tags : \E value \in Values(Type(tag)) :
        LET r == write(doc, tag, value) IN
        /\ Called
        /\ call' = Call("write", "copy", tag, value, JNull, r.ret)
        /\ doc' = r.jv

WriteMove ==
    \E tag \in Tags : \E value \in Values(Type(tag)) :
        LET r == write(doc, tag, value) IN
        /\ Called
        /\ call' = Call("write", "move", tag, value, JNull, r.ret)
        /\ doc' = r.jv

WriteNull ==
    \E tag \in Tags :
        LET r == write_null(doc, tag) IN
        /\ Called
        /\ call' = Call("write", "nullptr", tag, TNullptr, JNull, r.ret)
        /\ doc' = r.jv

EmplaceCopy ==
    \E tag \in Tags : \E value \in Values(Type(tag)) :
        LET r == emplace(doc, tag, value) IN
        /\ Called
        /\ call' = Call("emplace", "copy", tag, value, JNull, r.ret)
        /\ doc' = r.jv

EmplaceMove ==
    \E tag \in Tags : \E value \in Values(Type(tag)) :
        LET r == emplace(doc, tag, value) IN
        /\ Called
        /\ call' = Call("emplace", "move", tag, value, JNull, r.ret)
        /\ doc' = r.jv

EmplaceNull ==
    \E tag \in Tags :
        LET r == emplace_null(doc, tag) IN
        /\ Called
        /\ call' = Call("emplace", "nullptr", tag, TNullptr, JNull, r.ret)
        /\ doc' = r.jv

Reference ==
    \E tag \in Tags :
        /\ Called
        /\ call' = Call("reference", "none", tag, TNone, JNull, reference(doc, tag))
        /\ doc' = doc

Path ==
    \E tag \in Tags :
        /\ Called
        /\ call' = Call("path", "none", tag, TNone, JNull, path(tag))
        /\ doc' = doc

\* the caller assigns through the handle the last call returned
\* (*name_ref_1 = json::value(10)); the handle stays the last result
StoreThroughReference ==
    \E v \in StoredValues :
        /\ Called
        /\ call.op \in {"reference", "store"}
        /\ call.ret.kind = "ref"
        /\ call' = Call("store", "none", call.tag, TNone, v, call.ret)
        /\ doc' = Assign(doc, call.ret.pos, v)

Next ==
    \/ Read
    \/ TryRead
    \/ WriteCopy
    \/ WriteMove
    \/ WriteNull
    \/ EmplaceCopy
    \/ EmplaceMove
    \/ EmplaceNull
    \/ Reference
    \/ Path
    \/ StoreThroughReference

Spec == Init /\ [][Next]_vars

(***************************************************************************)
(* Vocabulary of the properties: the nodes of a document by position, and  *)
(* what the specification's words mean on the tree.  Nothing below is used *)
(* by the accessors.                                                       *)
(***************************************************************************)
\* the token positions of all nodes of jv (<<>> is jv itself)
RECURSIVE Nodes(_)
Nodes(jv) ==
    {<<>>}
    \cup UNION {{<<k>> \o p : p \in Nodes(jv.obj[k])} : k \in DOMAIN jv.obj}
    \cup UNION {{<<IndexToken(i - 1)>> \o p : p \in Nodes(jv.arr[i])} : i \in DOMAIN jv.arr}

IsPrefix(p, q) == Len(p) <= Len(q) /\ SubSeq(q, 1, Len(p)) = p
Comparable(p, q) == IsPrefix(p, q) \/ IsPrefix(q, p)
IsIndexToken(tok) == \E i \in DOMAIN IndexTokens : IndexTokens[i] = tok
IndexOfToken(tok) == (CHOOSE i \in DOMAIN IndexTokens : IndexTokens[i] = tok) - 1

\* the tag's path fully resolves in jv / some segment of it is missing
Resolves(jv, tag) == Segments(tag) \in Nodes(jv)
Missing(jv, tag) == ~Resolves(jv, tag)

\* how far the path exists, the node where it stops, the first missing token
ExistingLen(jv, toks) ==
    CHOOSE n \in 0..Len(toks) :
        /\ SubSeq(toks, 1, n) \in Nodes(jv)
        /\ \A m \in (n + 1)..Len(toks) : SubSeq(toks, 1, m) \notin Nodes(jv)
StopNode(jv, toks) == NodeAt(jv, SubSeq(toks, 1, ExistingLen(jv, toks)))
StopToken(jv, toks) == toks[ExistingLen(jv, toks) + 1]

\* the resolution error a missing path must give: an object without the key
\* or an array without the index is NotFound; the other causes have their own
ResolutionError(jv, toks) ==
    LET node == StopNode(jv, toks)
        tok == StopToken(jv, toks)
    IN  IF node.kind = "object" THEN "not_found"
        ELSE IF node.kind = "array"
             THEN IF tok = "-" THEN "past_the_end"
                  ELSE IF IsIndexToken(tok) THEN "not_found"
                  ELSE "token_not_number"
        ELSE "value_is_scalar"

\* an existing node on the path that cannot take the next segment and is
\* not null: a bool, number or string, or an array met by a key
Blocked(jv, toks) ==
    /\ toks \notin Nodes(jv)
    /\ LET node == StopNode(jv, toks)
           tok == StopToken(jv, toks)
       IN  \/ node.kind \notin {"object", "array", "null"}
           \/ node.kind = "array" /\ tok # "-" /\ ~IsIndexToken(tok)

\* node is the generic representation of the typed value t (nullptr: null)
IsGeneric(node, t) ==
    CASE t.type = "string"  -> node.kind = "string" /\ node.s = t.s
      [] t.type = "int"     -> node.kind = "int64" /\ node.n = t.n
      [] t.type = "vector"  ->
            /\ node.kind = "array"
            /\ Len(node.arr) = Len(t.v)
            /\ \A i \in DOMAIN t.v : node.arr[i].kind = "string" /\ node.arr[i].s = t.v[i]
      [] t.type = "nullptr" -> node.kind = "null"
      [] OTHER -> FALSE

\* node can be converted to the bound type
Convertible(type, node) ==
    CASE type = "string" -> node.kind = "string"
      [] type = "int"    -> node.kind = "int64" \/ (node.kind = "double" /\ node.n % 2 = 0)
      [] type = "vector" ->
            node.kind = "array" /\ \A i \in DOMAIN node.arr : node.arr[i].kind = "string"

\* between documents b and d nothing differs outside the node at pos:
\* same nodes, same content off the path, same kinds on it
OnlyNodeChanged(b, d, pos) ==
    /\ \A p \in Nodes(b) : ~Comparable(p, pos) => p \in Nodes(d) /\ NodeAt(d, p) = NodeAt(b, p)
    /\ \A q \in Nodes(d) : ~IsPrefix(pos, q) => q \in Nodes(b) /\ NodeAt(d, q).kind = NodeAt(b, q).kind

\* q is a null element that padded an array of the path up to the index
IsPadding(d, q, pos) ==
    /\ 1 <= Len(q) /\ Len(q) <= Len(pos)
    /\ SubSeq(q, 1, Len(q) - 1) = SubSeq(pos, 1, Len(q) - 1)
    /\ NodeAt(d, SubSeq(q, 1, Len(q) - 1)).kind = "array"
    /\ NodeAt(d, q) = JNull
    /\ IndexOfToken(q[Len(q)]) < IndexOfToken(pos[Len(q)])

\* d is b with the path toks created as far as it was missing, ending at pos
CreatedMinimally(b, d, toks, pos) ==
    /\ Len(pos) = Len(toks)
    /\ pos \in Nodes(d)
    /\ \A p \in Nodes(b) : ~Comparable(p, pos) => p \in Nodes(d) /\ NodeAt(d, p) = NodeAt(b, p)
    /\ \A q \in Nodes(d) :
            q \in Nodes(b) \/ IsPrefix(q, pos) \/ IsPrefix(pos, q) \/ IsPadding(d, q, pos)
    /\ \A n \in 0..(Len(pos) - 1) :
            LET p == SubSeq(pos, 1, n)
                kept == p \in Nodes(b) /\ NodeAt(b, p).kind # "null"
            IN  IF kept
                THEN NodeAt(d, p).kind = NodeAt(b, p).kind
                ELSE NodeAt(d, p).kind =
                        IF toks[n + 1] = "-" \/ IsIndexToken(toks[n + 1]) THEN "array" ELSE "object"

(***************************************************************************)
(* Properties                                                              *)
(***************************************************************************)
Segs == Segments(call.tag)

\* C1: a write (copy, move or nullptr overload) on a document in which some
\* segment of the tag's path is missing returns false and leaves the
\* document exactly as it was: nothing is created, nothing is changed.
C1_WriteMissingChangesNothing ==
    (call.op = "write" /\ Missing(before, call.tag))
        => (call.ret.kind = "false" /\ doc = before)

\* a move-overload write was refused on a document that has the parent
\* object but not the member
C1_Witness ==
    /\ call.op = "write" /\ call.overload = "move"
    /\ Missing(before, call.tag)
    /\ ExistingLen(before, Segs) = 1
    /\ call.ret.kind = "false"

\* C2: a write of a value v on a document in which the tag's path resolves
\* returns true, the node at the path is then the generic representation of
\* v, and every node that is not that node or inside it is unchanged.
C2_WriteOverwritesOnlyTerminal ==
    (call.op = "write" /\ call.overload # "nullptr" /\ Resolves(before, call.tag))
        => /\ call.ret.kind = "true"
           /\ Resolves(doc, call.tag)
           /\ IsGeneric(NodeAt(doc, Segs), call.arg)
           /\ OnlyNodeChanged(before, doc, Segs)

\* the test's write of a vector over template_json: name and age stay
C2_Witness ==
    /\ call.op = "write" /\ call.tag = "UserLangs" /\ call.arg = TVector(<<>>)
    /\ before = template_json
    /\ call.ret.kind = "true"
    /\ doc # before

\* C3: where the tag's path resolves to a node convertible to the bound
\* type, read and try_read return the same value, try_read as a success;
\* and after a successful write of v, read returns v.
C3_ReadTryReadAgreeAndRoundTrip ==
    /\ (call.op = "read" /\ Resolves(before, call.tag)
            /\ Convertible(Type(call.tag), NodeAt(before, Segs)))
        => (call.ret.kind = "value" /\ try_read(doc, call.tag) = call.ret)
    /\ (call.op = "try_read" /\ Resolves(before, call.tag)
            /\ Convertible(Type(call.tag), NodeAt(before, Segs)))
        => (call.ret.kind = "value" /\ read(doc, call.tag) = call.ret)
    /\ (call.op = "write" /\ call.overload # "nullptr" /\ call.ret.kind = "true")
        => (read(doc, call.tag) = RetValue(call.arg)
            /\ try_read(doc, call.tag) = RetValue(call.arg))

\* the vector of the test written over a node that held null, so that the
\* value read back can only come from the write
C3_Witness ==
    /\ call.op = "write" /\ call.tag = "UserLangs"
    /\ call.arg = TVector(<<"C++", "Python">>)
    /\ Resolves(before, call.tag)
    /\ NodeAt(before, Segs).kind = "null"
    /\ call.ret.kind = "true"

\* C4 as stated: with a segment missing, read raises, try_read returns a
\* NotFound error value, reference returns null, the document is unchanged.
C4_MissingIsNotFound ==
    (call.op \in {"read", "try_read", "reference"} /\ Missing(before, call.tag))
        => /\ doc = before
           /\ call.op = "read" => call.ret.kind = "raised"
           /\ call.op = "try_read" => (call.ret.kind = "error" /\ call.ret.ec = "not_found")
           /\ call.op = "reference" => call.ret.kind = "nullptr"

\* C4 amended: with a segment missing, read raises, reference returns null,
\* the document is unchanged, and try_read returns (never raises) a pointer
\* resolution error: NotFound when the path stops at an object without the
\* key or an array without the index, and value_is_scalar, token_not_number
\* or past_the_end when it stops at a scalar or null node, at an array met
\* by a key, or at an array met by "-".  read raises with the same code.
C4_MissingIsResolutionError ==
    (call.op \in {"read", "try_read", "reference"} /\ Missing(before, call.tag))
        => /\ doc = before
           /\ call.op = "read" =>
                (call.ret.kind = "raised" /\ call.ret.ec = ResolutionError(before, Segs))
           /\ call.op = "try_read" =>
                /\ call.ret.kind = "error"
                /\ call.ret.ec \in PointerUseErrors
                /\ call.ret.ec = ResolutionError(before, Segs)
                /\ (call.ret.ec = "not_found") <=>
                        \/ StopNode(before, Segs).kind = "object"
                        \/ StopNode(before, Segs).kind = "array" /\ IsIndexToken(StopToken(before, Segs))
           /\ call.op = "reference" => call.ret.kind = "nullptr"

\* try_read on the empty document json::value(): the root is null
C4_Witness ==
    /\ call.op = "try_read" /\ before = JNull
    /\ call.ret.kind = "error" /\ call.ret.ec = "value_is_scalar"

\* every node of d that is not in b lies on the path to pos, inside pos, or
\* is a null element an array of the path needed to reach its index
NothingElseCreated(b, d, pos) ==
    \A q \in Nodes(d) :
        q \in Nodes(b) \/ IsPrefix(q, pos) \/ IsPrefix(pos, q) \/ IsPadding(d, q, pos)

C6_EmplaceIdempotent ==
    [][ (/\ call.op = "emplace" /\ call.ret.kind = "ref"
         /\ call'.op = "emplace" /\ call'.tag = call.tag /\ call'.arg = call.arg)
        => doc' = doc ]_vars

\* C6 amended: two identical emplace calls in a row leave the document as
\* the first one left it, unless a "-" segment of the path met an array (or
\* a null node, which becomes one): then each call appends an element.
C6_EmplaceIdempotentUnlessAppend ==
    [][ (/\ call.op = "emplace" /\ call.ret.kind = "ref"
         /\ call'.op = "emplace" /\ call'.tag = call.tag /\ call'.arg = call.arg)
        => /\ call.ret.pos = Segs => (doc' = doc /\ call'.ret = call.ret)
           /\ call.ret.pos # Segs =>
                (doc' # doc /\ Cardinality(Nodes(doc')) = Cardinality(Nodes(doc)) + 1) ]_vars

\* the second of two emplace calls through an index that padded the array:
\* the only run that leaves [null, "Bob"] and then changes nothing
C6_Witness ==
    /\ call.op = "emplace" /\ call.tag = "UserLang1" /\ call.arg = TString("Bob")
    /\ call.ret.kind = "ref"
    /\ calls = 2
    /\ doc = before
    /\ NodeAt(doc, <<"user", "languages">>).arr = <<JNull, JString("Bob")>>

\* C7: reference returns a handle to the node inside the document: the
\* call changes nothing; a value stored through the handle is the content
\* of the node at the tag's path and nothing else changes; a read at the
\* tag then returns it (when convertible) and reference returns the same
\* node.
C7_ReferenceIsLive ==
    /\ (call.op = "reference" /\ Resolves(before, call.tag))
        => /\ doc = before
           /\ call.ret.kind = "ref"
           /\ call.ret.pos = Segs
    /\ (call.op = "store")
        => /\ Resolves(doc, call.tag)
           /\ NodeAt(doc, Segs) = call.stored
           /\ OnlyNodeChanged(before, doc, Segs)
           /\ reference(doc, call.tag) = call.ret
           /\ Convertible(Type(call.tag), call.stored)
                => (/\ read(doc, call.tag).kind = "value"
                    /\ IsGeneric(call.stored, read(doc, call.tag).val))

\* the test: 10 stored through the handle of the int tag is read back
C7_Witness ==
    /\ call.op = "store" /\ call.tag = "UserAge" /\ call.stored = JInt(10)
    /\ NodeAt(before, Segs) = JInt(23)
    /\ read(doc, call.tag) = RetValue(TInt(10))

\* C8: where the tag's path resolves to a node that cannot be converted to
\* the bound type, read raises and try_read returns an error value, both
\* with a conversion error, never NotFound; neither returns a value.
C8_MismatchIsSurfaced ==
    (call.op \in {"read", "try_read"} /\ Resolves(before, call.tag)
        /\ ~Convertible(Type(call.tag), NodeAt(before, Segs)))
        => /\ call.ret.kind = (IF call.op = "read" THEN "raised" ELSE "error")
           /\ call.ret.ec \in ConversionErrors
           /\ call.ret.ec \notin PointerUseErrors
           /\ doc = before

\* try_read of the string tag after 10 was stored through its handle
C8_Witness ==
    /\ call.op = "try_read" /\ call.tag = "UserName"
    /\ Resolves(before, call.tag)
    /\ NodeAt(before, Segs) = JInt(10)
    /\ call.ret = RetError("not_string")

====
